---- MODULE Spec2Model ----
(***************************************************************************)
(* Model of client_chat.py: MCPClient (connect_to_server, call_ollama,     *)
(* process_query, chat_loop, cleanup) and main.                            *)
(*                                                                         *)
(* Python values are encoded as tuples of strings whose first element is   *)
(* the type tag: <<"none">>, <<"str", c1, ..>>, <<"dict", k1, v1, ..>>,    *)
(* <<"list", x1, ..>>, <<"int", n>>.  <<"absent">> marks a missing key.    *)
(* Text (paths, input lines, JSON documents) is a sequence of characters   *)
(* or lexemes.                                                             *)
(***************************************************************************)
EXTENDS Naturals, Sequences, FiniteSets, TLC

\* Longest tool_calls list the model endpoint returns in the model.
MaxCalls == 2

\* response.status == 200
StatusOK == 200

----------------------------------------------------------------------------
\* Python values

None == <<"none">>
Absent == <<"absent">>
EmptyDict == <<"dict">>
EmptyStr == <<"str">>

Kind(v) == v[1]

IsStr(v) == Kind(v) = "str"

IsMapping(v) == Kind(v) = "dict"

\* Python truthiness, as used by `or`
Truthy(v) ==
    CASE Kind(v) = "none" -> FALSE
      [] Kind(v) = "absent" -> FALSE
      [] Kind(v) = "int" -> v[2] # "0"
      [] OTHER -> Len(v) > 1

\* d.get(key) of a key whose stored value is v (Absent when missing)
Get(v) == IF v = Absent THEN None ELSE v

\* d.get(key, default)
GetDefault(v, default) == IF v = Absent THEN default ELSE v

\* a or b
Or(a, b) == IF Truthy(a) THEN a ELSE b

----------------------------------------------------------------------------
\* Text helpers

EndsWith(s, suffix) ==
    /\ Len(s) >= Len(suffix)
    /\ SubSeq(s, Len(s) - Len(suffix) + 1, Len(s)) = suffix

Whitespace == {" ", "\t", "\n"}

RECURSIVE LStrip(_)
LStrip(s) ==
    IF s # <<>> /\ Head(s) \in Whitespace THEN LStrip(Tail(s)) ELSE s

RECURSIVE RStrip(_)
RStrip(s) ==
    IF s # <<>> /\ s[Len(s)] \in Whitespace
    THEN RStrip(SubSeq(s, 1, Len(s) - 1))
    ELSE s

\* str.strip()
Strip(s) == LStrip(RStrip(s))

LowerChar(c) ==
    CASE c = "Q" -> "q"
      [] c = "U" -> "u"
      [] c = "I" -> "i"
      [] c = "T" -> "t"
      [] c = "H" -> "h"
      [] OTHER -> c

\* str.lower()
Lower(s) == [i \in 1..Len(s) |-> LowerChar(s[i])]

----------------------------------------------------------------------------
\* json.loads on a lexeme sequence.  Grammar covered:
\*   value  ::= object | array | string | number | null
\*   object ::= { } | { string : string (, string : string)* }
\*   array  ::= [ ] | [ number (, number)* ]
\*   string ::= " word "        number ::= a digit lexeme

Digits == {"0", "1", "2"}

Punct == {"{", "}", "[", "]", ":", ",", "\"", "null"}

IsWord(t) == t \notin Punct /\ t \notin Digits

JSONDecodeError == <<"error", "JSONDecodeError">>

\* members of an object from position i on; the result is the flattened
\* key/value tuple or JSONDecodeError
RECURSIVE ParseMembers(_, _, _)
ParseMembers(t, i, acc) ==
    IF /\ i + 6 <= Len(t)
       /\ t[i] = "\"" /\ IsWord(t[i + 1]) /\ t[i + 2] = "\""
       /\ t[i + 3] = ":"
       /\ t[i + 4] = "\"" /\ IsWord(t[i + 5]) /\ t[i + 6] = "\""
    THEN IF i + 7 = Len(t) /\ t[i + 7] = "}"
         THEN acc \o <<t[i + 1], t[i + 5]>>
         ELSE IF i + 7 < Len(t) /\ t[i + 7] = ","
              THEN ParseMembers(t, i + 8, acc \o <<t[i + 1], t[i + 5]>>)
              ELSE JSONDecodeError
    ELSE JSONDecodeError

RECURSIVE ParseItems(_, _, _)
ParseItems(t, i, acc) ==
    IF i <= Len(t) /\ t[i] \in Digits
    THEN IF i + 1 = Len(t) /\ t[i + 1] = "]"
         THEN acc \o <<t[i]>>
         ELSE IF i + 1 < Len(t) /\ t[i + 1] = ","
              THEN ParseItems(t, i + 2, acc \o <<t[i]>>)
              ELSE JSONDecodeError
    ELSE JSONDecodeError

JsonLoads(s) ==
    LET t == Tail(s) IN
    CASE t = <<"{", "}">> -> EmptyDict
      [] t = <<"[", "]">> -> <<"list">>
      [] t = <<"null">> -> None
      [] Len(t) = 1 /\ t[1] \in Digits -> <<"int", t[1]>>
      [] Len(t) = 3 /\ t[1] = "\"" /\ IsWord(t[2]) /\ t[3] = "\"" -> <<"str", t[2]>>
      [] Len(t) > 2 /\ t[1] = "{" -> ParseMembers(t, 2, EmptyDict)
      [] Len(t) > 2 /\ t[1] = "[" -> ParseItems(t, 2, <<"list">>)
      [] OTHER -> JSONDecodeError

----------------------------------------------------------------------------
\* Exceptions

NoExc == [type |-> "none", msg |-> <<>>]

Raise(type, msg) == [type |-> type, msg |-> msg]

\* `except Exception` catches every exception class except the ones derived
\* from BaseException only (KeyboardInterrupt, CancelledError, SystemExit)
IsException(e) == e.type \notin {"none", "KeyboardInterrupt"}

----------------------------------------------------------------------------
\* Inputs

\* sys.argv[1] candidates, as character sequences ("s" stands for a stem)
Paths ==
    { <<"s", ".", "p", "y">>,
      <<"s", ".", "j", "s">>,
      <<"s", ".", "P", "Y">>,
      <<"s", ".", "p", "y", "c">>,
      <<"s", ".", "p", "y", " ">>,
      <<"p", "y">>,
      <<>> }

\* sys.argv[1:]
Argvs == {<<>>} \cup {<<p>> : p \in Paths}

\* lines typed at the prompt
Lines ==
    { <<"q", "u", "i", "t">>,
      <<"Q", "U", "I", "T", " ", " ">>,
      <<" ", "\t", "Q", "u", "i", "T", "\n">>,
      <<>>,
      <<"H", "i">> }

Quit == <<"q", "u", "i", "t">>

\* tool descriptors served by the subprocess
Weather == [name |-> "get_weather", description |-> <<"str", "weather">>, inputSchema |-> "schemaA"]
Echo == [name |-> "echo", description |-> None, inputSchema |-> "schemaB"]

ToolLists == { <<Weather>>, <<Echo, Weather>> }

\* arguments values
CityRomeText == <<"str", "{", "\"", "city", "\"", ":", "\"", "Rome", "\"", "}">>
CityRome == <<"dict", "city", "Rome">>
Malformed == <<"str", "{", "\"", "city", "\"", ":">>
ListText == <<"str", "[", "1", "]">>

NoFunction == [kind |-> "absent", name |-> Absent, arguments |-> Absent]

Nested(name, arguments) == [kind |-> "dict", name |-> name, arguments |-> arguments]

Call(function, name, arguments) ==
    [kind |-> "dict", function |-> function, name |-> name, arguments |-> arguments]

\* tool_calls elements the model endpoint returns
CallShapes ==
    { Call(Nested(<<"str", "get_weather">>, CityRomeText), Absent, Absent),
      Call(Nested(<<"str", "get_weather">>, CityRome), Absent, Absent),
      Call(Nested(<<"str", "echo">>, Malformed), Absent, Absent),
      Call(Nested(<<"str", "echo">>, ListText), Absent, Absent),
      Call(Nested(<<"str", "echo">>, EmptyStr), Absent, Absent),
      Call(Nested(<<"str", "echo">>, Absent), Absent, Absent),
      Call(NoFunction, <<"str", "get_weather">>, CityRomeText),
      Call(NoFunction, <<"str", "echo">>, None),
      [kind |-> "str", function |-> NoFunction, name |-> Absent, arguments |-> Absent] }

CallLists == UNION {[1..n -> CallShapes] : n \in 0..MaxCalls}

Hello == <<"str", "Hello!">>

\* response_data['message'] of a status-200 response
Messages ==
    {[hasToolCalls |-> TRUE, tool_calls |-> cs, content |-> c] :
        cs \in CallLists, c \in {EmptyStr}}
    \cup
    {[hasToolCalls |-> FALSE, tool_calls |-> <<>>, content |-> c] :
        c \in {Absent, EmptyStr, Hello}}

Bodies == { <<"internal error">>, <<>> }

\* HTTP responses of the model endpoint
Responses ==
    {[status |-> StatusOK, body |-> <<>>, message |-> m] : m \in Messages}
    \cup
    {[status |-> s, body |-> b,
      message |-> [hasToolCalls |-> FALSE, tool_calls |-> <<>>, content |-> Absent]] :
        s \in {201, 404, 500}, b \in Bodies}

Text(t) == [hasText |-> TRUE, text |-> t]
Image == [hasText |-> FALSE, text |-> ""]

\* CallToolResult values returned by session.call_tool
Results ==
    { [content |-> <<Text("Sunny")>>],
      [content |-> <<Image, Text("Sunny")>>],
      [content |-> <<>>] }

----------------------------------------------------------------------------
\* Pure parts of the code

\* faulty variant: the dot of the extension is not checked
IsPythonNoDot(path) == EndsWith(path, <<"p", "y">>)

\* connect_to_server: server_script_path.endswith('.py')
IsPython(path) == EndsWith(path, <<".", "p", "y">>)

\* faulty variant: the comparison is case-sensitive
IsQuitCaseSensitive(query) == query = Quit

\* chat_loop: query.lower() == 'quit'  (query is already stripped)
IsQuit(query) == Lower(query) = Quit

\* chat_loop: input("\nQuery: ").strip()
ReadQuery(line) == Strip(line)

\* process_query: the function-calling descriptors built from response.tools
AvailableTools(tools) ==
    [i \in 1..Len(tools) |->
        [type |-> "function",
         function |-> [name |-> tools[i].name,
                       description |-> Or(tools[i].description, EmptyStr),
                       parameters |-> tools[i].inputSchema]]]

\* call_ollama: the error raised for a status other than 200
OllamaError(response) ==
    Raise("Exception",
          <<"Errore Ollama: ", ToString(response.status), " - ">> \o response.body)

\* faulty variant: every 2xx status is taken as a success
StatusIsBelow300(response) == response.status < 300

\* call_ollama: is the response handled as a success
StatusIsOK(response) == response.status = StatusOK

\* faulty variant: message.get('content') without the '' default
OllamaContentNoDefault(message) ==
    IF message.hasToolCalls
    THEN [isList |-> TRUE, calls |-> message.tool_calls, text |-> EmptyStr]
    ELSE [isList |-> FALSE, calls |-> <<>>, text |-> Get(message.content)]

\* call_ollama: the value returned for a status-200 response
OllamaContent(message) ==
    IF message.hasToolCalls
    THEN [isList |-> TRUE, calls |-> message.tool_calls, text |-> EmptyStr]
    ELSE [isList |-> FALSE, calls |-> <<>>,
          text |-> GetDefault(message.content, EmptyStr)]

\* process_query: call.get("function", {}).get("name") or call.get("name")
ToolName(call) ==
    LET fname == IF call.function.kind = "absent" THEN None
                 ELSE Get(call.function.name)
    IN Or(fname, Get(call.name))

\* process_query: call.get("function", {}).get("arguments") or call.get("arguments", {})
ArgsRaw(call) ==
    LET fargs == IF call.function.kind = "absent" THEN None
                 ELSE Get(call.function.arguments)
    IN Or(fargs, GetDefault(call.arguments, EmptyDict))

\* faulty variant: the argument string is passed on undecoded
DecodeArgsNever(args_raw) == args_raw

\* process_query: json.loads(args_raw) if isinstance(args_raw, str) else args_raw
DecodeArgs(args_raw) == IF IsStr(args_raw) THEN JsonLoads(args_raw) ELSE args_raw

\* process_query: name and args of one tool_calls element, or the exception
\* raised while resolving them
Resolve(call) ==
    IF call.kind # "dict" \/ call.function.kind \notin {"absent", "dict"}
    THEN [ok |-> FALSE, name |-> None, args |-> None,
          exc |-> Raise("AttributeError", <<"object has no attribute 'get'">>)]
    ELSE LET args == DecodeArgs(ArgsRaw(call)) IN
         IF args = JSONDecodeError
         THEN [ok |-> FALSE, name |-> None, args |-> None,
               exc |-> Raise("JSONDecodeError", <<"Expecting value">>)]
         ELSE [ok |-> TRUE, name |-> ToolName(call), args |-> args, exc |-> NoExc]

\* process_query: getattr(result.content[0], 'text', result)
ResultText(result) ==
    IF result.content = <<>>
    THEN [ok |-> FALSE, val |-> None,
          exc |-> Raise("IndexError", <<"list index out of range">>)]
    ELSE [ok |-> TRUE,
          val |-> IF result.content[1].hasText
                  THEN <<"str", result.content[1].text>>
                  ELSE <<"object", "CallToolResult">>,
          exc |-> NoExc]

\* faulty variant: cleanup after the try block instead of in a finally clause
CleanupOnlyOnSuccess(e) == e = NoExc

\* main: the finally clause runs cleanup whatever left the try block
CleanupRuns(e) == TRUE

\* process_query: the handler of the try around call_ollama and the dispatch
InnerCatches(e) == IsException(e)

\* faulty variant: the handler catches ValueError only
OuterCatchesValueError(e) == e.type = "ValueError"

\* chat_loop: the handler of the try around input and process_query
OuterCatches(e) == IsException(e)

----------------------------------------------------------------------------
\* State

VARIABLES
    pc,          \* where main is: "main", "spawn", "open_session", "initialize",
                 \* "connect_list", "prompt", "list_tools", "post", "call_tool",
                 \* "finally", "done", "exited"
    argv,        \* sys.argv[1:]
    exc,         \* the exception leaving main's try block (NoExc: none)
    subprocess,  \* stdio_client context: "none", "running", "released"
    session,     \* ClientSession context: "none", "open", "released"
    releases,    \* how often each context's exit ran
    cleanups,    \* how often cleanup ran
    lateOp,      \* a list-tools or call-tool was issued on a session not open
    loop,        \* chat_loop: "none", "Running", "Terminated"
    leftBy,      \* what ended chat_loop: "none", "quit" or the exception type
    line,        \* the line input() returned in this iteration
    query,       \* the stripped line of this iteration
    fetched,     \* response.tools of this iteration's list_tools
    posted,      \* the requests sent to the model endpoint in this iteration
    received,    \* the HTTP response to this iteration's request
    returned,    \* how many call_tool invocations of this iteration returned
    calls,       \* the tool_calls list being dispatched
    idx,         \* position of the call being dispatched
    trace        \* this iteration's operations and prints, in order

vars == <<pc, argv, exc, subprocess, session, releases, cleanups, lateOp, loop,
          leftBy, line, query, fetched, posted, received, returned, calls, idx,
          trace>>

\* no response received (yet)
NoResponse == [status |-> 0, body |-> <<>>, hasToolCalls |-> FALSE, content |-> Absent]

Received(response) ==
    [status |-> response.status, body |-> response.body,
     hasToolCalls |-> response.message.hasToolCalls,
     content |-> response.message.content]

Event(type, i, name, val) == [type |-> type, idx |-> i, name |-> name, val |-> val]

Init ==
    /\ pc = "main"
    /\ argv \in Argvs
    /\ exc = NoExc
    /\ subprocess = "none"
    /\ session = "none"
    /\ releases = [subprocess |-> 0, session |-> 0]
    /\ cleanups = 0
    /\ lateOp = FALSE
    /\ loop = "none"
    /\ leftBy = "none"
    /\ line = <<>>
    /\ query = <<>>
    /\ fetched = <<>>
    /\ posted = <<>>
    /\ received = NoResponse
    /\ returned = 0
    /\ calls = <<>>
    /\ idx = 0
    /\ trace = <<>>

----------------------------------------------------------------------------
\* Exception propagation out of one chat_loop iteration

InnerPrint(e) ==
    Event("error", 0, None, <<"Errore durante la chiamata a Ollama: ">> \o e.msg)

OuterPrint(e) == Event("error", 0, None, <<"\nErrore: ">> \o e.msg)

\* e is raised with tr traced so far; inInner: inside process_query's try
Propagate(e, tr, inInner) ==
    IF inInner /\ InnerCatches(e)
    THEN /\ trace' = Append(tr, InnerPrint(e))
         /\ pc' = "prompt"
         /\ UNCHANGED <<exc, loop, leftBy>>
    ELSE IF OuterCatches(e)
         THEN /\ trace' = Append(tr, OuterPrint(e))
              /\ pc' = "prompt"
              /\ UNCHANGED <<exc, loop, leftBy>>
         ELSE /\ trace' = tr
              /\ pc' = "finally"
              /\ exc' = e
              /\ loop' = "Terminated"
              /\ leftBy' = e.type

\* the for loop of process_query from element i of cs on, up to the next
\* await (session.call_tool) or the end of the loop
Dispatch(cs, i, tr) ==
    IF i > Len(cs)
    THEN /\ pc' = "prompt"
         /\ trace' = tr
         /\ idx' = i
         /\ UNCHANGED <<exc, loop, leftBy, lateOp>>
    ELSE LET r == Resolve(cs[i]) IN
         IF r.ok
         THEN /\ trace' = tr \o <<Event("notice", i, r.name, r.args),
                                 Event("call_tool", i, r.name, r.args)>>
              /\ lateOp' = (lateOp \/ session # "open")
              /\ pc' = "call_tool"
              /\ idx' = i
              /\ UNCHANGED <<exc, loop, leftBy>>
         ELSE /\ idx' = i
              /\ UNCHANGED lateOp
              /\ Propagate(r.exc, tr, TRUE)

----------------------------------------------------------------------------
\* main and connect_to_server

MainUsage ==
    /\ UNCHANGED <<line, received, returned>>
    /\ pc = "main"
    /\ Len(argv) < 1
    /\ pc' = "exited"
    /\ UNCHANGED <<argv, exc, subprocess, session, releases, cleanups, lateOp,
                   loop, leftBy, query, fetched, posted, calls, idx, trace>>

ConnectInvalid ==
    /\ UNCHANGED <<line, received, returned>>
    /\ pc = "main"
    /\ Len(argv) >= 1
    /\ ~IsPython(argv[1])
    /\ exc' = Raise("ValueError", <<"Server script must be a .py file">>)
    /\ pc' = "finally"
    /\ UNCHANGED <<argv, subprocess, session, releases, cleanups, lateOp, loop,
                   leftBy, query, fetched, posted, calls, idx, trace>>

ConnectStart ==
    /\ UNCHANGED <<line, received, returned>>
    /\ pc = "main"
    /\ Len(argv) >= 1
    /\ IsPython(argv[1])
    /\ pc' = "spawn"
    /\ UNCHANGED <<argv, exc, subprocess, session, releases, cleanups, lateOp,
                   loop, leftBy, query, fetched, posted, calls, idx, trace>>

SpawnOk ==
    /\ UNCHANGED <<line, received, returned>>
    /\ pc = "spawn"
    /\ subprocess' = "running"
    /\ pc' = "open_session"
    /\ UNCHANGED <<argv, exc, session, releases, cleanups, lateOp, loop, leftBy,
                   query, fetched, posted, calls, idx, trace>>

SpawnFails ==
    /\ UNCHANGED <<line, received, returned>>
    /\ pc = "spawn"
    /\ exc' = Raise("OSError", <<"No such file or directory">>)
    /\ pc' = "finally"
    /\ UNCHANGED <<argv, subprocess, session, releases, cleanups, lateOp, loop,
                   leftBy, query, fetched, posted, calls, idx, trace>>

OpenSession ==
    /\ UNCHANGED <<line, received, returned>>
    /\ pc = "open_session"
    /\ session' = "open"
    /\ pc' = "initialize"
    /\ UNCHANGED <<argv, exc, subprocess, releases, cleanups, lateOp, loop,
                   leftBy, query, fetched, posted, calls, idx, trace>>

InitializeOk ==
    /\ UNCHANGED <<line, received, returned>>
    /\ pc = "initialize"
    /\ lateOp' = (lateOp \/ session # "open")
    /\ pc' = "connect_list"
    /\ UNCHANGED <<argv, exc, subprocess, session, releases, cleanups, loop,
                   leftBy, query, fetched, posted, calls, idx, trace>>

InitializeFails ==
    /\ UNCHANGED <<line, received, returned>>
    /\ pc = "initialize"
    /\ exc' = Raise("McpError", <<"Connection closed">>)
    /\ pc' = "finally"
    /\ UNCHANGED <<argv, subprocess, session, releases, cleanups, lateOp, loop,
                   leftBy, query, fetched, posted, calls, idx, trace>>

ConnectListOk(tools) ==
    /\ UNCHANGED <<line, received, returned>>
    /\ pc = "connect_list"
    /\ fetched' = tools
    /\ loop' = "Running"
    /\ pc' = "prompt"
    /\ UNCHANGED <<argv, exc, subprocess, session, releases, cleanups, lateOp,
                   leftBy, query, posted, calls, idx, trace>>

ConnectListFails ==
    /\ UNCHANGED <<line, received, returned>>
    /\ pc = "connect_list"
    /\ exc' = Raise("McpError", <<"Connection closed">>)
    /\ pc' = "finally"
    /\ UNCHANGED <<argv, subprocess, session, releases, cleanups, lateOp, loop,
                   leftBy, query, fetched, posted, calls, idx, trace>>

InterruptConnect ==
    /\ UNCHANGED <<line, received, returned>>
    /\ pc \in {"spawn", "open_session", "initialize", "connect_list"}
    /\ exc' = Raise("KeyboardInterrupt", <<>>)
    /\ pc' = "finally"
    /\ UNCHANGED <<argv, subprocess, session, releases, cleanups, lateOp, loop,
                   leftBy, query, fetched, posted, calls, idx, trace>>

Released(state, live) == IF state = live THEN "released" ELSE state

Cleanup ==
    /\ UNCHANGED <<line, received, returned>>
    /\ pc = "finally"
    /\ IF CleanupRuns(exc)
       THEN /\ cleanups' = cleanups + 1
            /\ session' = Released(session, "open")
            /\ subprocess' = Released(subprocess, "running")
            /\ releases' =
                 [session |-> releases.session + (IF session = "open" THEN 1 ELSE 0),
                  subprocess |-> releases.subprocess
                                   + (IF subprocess = "running" THEN 1 ELSE 0)]
       ELSE UNCHANGED <<cleanups, session, subprocess, releases>>
    /\ pc' = "done"
    /\ UNCHANGED <<argv, exc, lateOp, loop, leftBy, query, fetched, posted,
                   calls, idx, trace>>

----------------------------------------------------------------------------
\* chat_loop and process_query

ReadLine(input) ==
    /\ line' = input
    /\ received' = NoResponse
    /\ returned' = 0
    /\ pc = "prompt"
    /\ query' = ReadQuery(input)
    /\ fetched' = <<>>
    /\ posted' = <<>>
    /\ calls' = <<>>
    /\ idx' = 0
    /\ IF IsQuit(query')
       THEN /\ loop' = "Terminated"
            /\ leftBy' = "quit"
            /\ pc' = "finally"
            /\ trace' = <<>>
            /\ UNCHANGED lateOp
       ELSE /\ trace' = <<Event("list_tools", 0, None, None)>>
            /\ lateOp' = (lateOp \/ session # "open")
            /\ pc' = "list_tools"
            /\ UNCHANGED <<loop, leftBy>>
    /\ UNCHANGED <<argv, exc, subprocess, session, releases, cleanups>>

ReadEOF ==
    /\ received' = NoResponse
    /\ returned' = 0
    /\ UNCHANGED line
    /\ pc = "prompt"
    /\ fetched' = <<>>
    /\ posted' = <<>>
    /\ calls' = <<>>
    /\ idx' = 0
    /\ Propagate(Raise("EOFError", <<"EOF when reading a line">>), <<>>, FALSE)
    /\ UNCHANGED <<argv, subprocess, session, releases, cleanups, lateOp, query>>

ListToolsReturns(tools) ==
    /\ UNCHANGED <<line, received, returned>>
    /\ pc = "list_tools"
    /\ fetched' = tools
    /\ posted' = Append(posted, [query |-> query, tools |-> AvailableTools(tools)])
    /\ trace' = Append(trace, Event("post", 0, None, None))
    /\ pc' = "post"
    /\ UNCHANGED <<argv, exc, subprocess, session, releases, cleanups, lateOp,
                   loop, leftBy, query, calls, idx>>

ListToolsRaises ==
    /\ UNCHANGED <<line, received, returned>>
    /\ pc = "list_tools"
    /\ Propagate(Raise("McpError", <<"Connection closed">>), trace, FALSE)
    /\ UNCHANGED <<argv, subprocess, session, releases, cleanups, lateOp, query,
                   fetched, posted, calls, idx>>

\* faulty variant: a failed request is sent once more
PostFailsRetry ==
    /\ pc = "post"
    /\ Len(posted) < 2
    /\ posted' = Append(posted, posted[1])
    /\ trace' = Append(trace, Event("post", 0, None, None))
    /\ UNCHANGED <<pc, argv, exc, subprocess, session, releases, cleanups, lateOp,
                   loop, leftBy, line, query, fetched, received, returned, calls,
                   idx>>

PostFails ==
    /\ UNCHANGED <<line, received, returned>>
    /\ pc = "post"
    /\ Propagate(Raise("ClientConnectorError", <<"Cannot connect to host">>), trace, TRUE)
    /\ UNCHANGED <<argv, subprocess, session, releases, cleanups, lateOp, query,
                   fetched, posted, calls, idx>>

PostReturns(response) ==
    /\ received' = Received(response)
    /\ UNCHANGED <<line, returned>>
    /\ pc = "post"
    /\ IF ~StatusIsOK(response)
       THEN /\ Propagate(OllamaError(response), trace, TRUE)
            /\ UNCHANGED <<calls, idx, lateOp>>
       ELSE LET content == OllamaContent(response.message) IN
            IF content.isList
            THEN /\ calls' = content.calls
                 /\ Dispatch(content.calls, 1, trace)
            ELSE /\ trace' = Append(trace, Event("model", 0, None, content.text))
                 /\ pc' = "prompt"
                 /\ UNCHANGED <<calls, idx, lateOp, exc, loop, leftBy>>
    /\ UNCHANGED <<argv, subprocess, session, releases, cleanups, query, fetched,
                   posted>>

ToolReturns(result) ==
    /\ returned' = returned + 1
    /\ UNCHANGED <<line, received>>
    /\ pc = "call_tool"
    /\ LET text == ResultText(result) IN
       IF text.ok
       THEN Dispatch(calls, idx + 1,
                     Append(trace, Event("result", idx, trace[Len(trace)].name, text.val)))
       ELSE /\ Propagate(text.exc, trace, TRUE)
            /\ UNCHANGED <<idx, lateOp>>
    /\ UNCHANGED <<argv, subprocess, session, releases, cleanups, query, fetched,
                   posted, calls>>

ToolRaises ==
    /\ UNCHANGED <<line, received, returned>>
    /\ pc = "call_tool"
    /\ Propagate(Raise("McpError", <<"tool failed">>), trace, TRUE)
    /\ UNCHANGED <<argv, subprocess, session, releases, cleanups, lateOp, query,
                   fetched, posted, calls, idx>>

\* KeyboardInterrupt / task cancellation while chat_loop runs
Interrupt ==
    /\ UNCHANGED <<line, received, returned>>
    /\ pc \in {"prompt", "list_tools", "post", "call_tool"}
    /\ Propagate(Raise("KeyboardInterrupt", <<>>), trace, pc \in {"post", "call_tool"})
    /\ UNCHANGED <<argv, subprocess, session, releases, cleanups, lateOp, query,
                   fetched, posted, calls, idx>>

Next ==
    \/ MainUsage
    \/ ConnectInvalid
    \/ ConnectStart
    \/ SpawnOk
    \/ SpawnFails
    \/ OpenSession
    \/ InitializeOk
    \/ InitializeFails
    \/ \E tools \in ToolLists : ConnectListOk(tools)
    \/ ConnectListFails
    \/ InterruptConnect
    \/ Cleanup
    \/ \E input \in Lines : ReadLine(input)
    \/ ReadEOF
    \/ \E tools \in ToolLists : ListToolsReturns(tools)
    \/ ListToolsRaises
    \/ PostFails
    \/ \E response \in Responses : PostReturns(response)
    \/ \E result \in Results : ToolReturns(result)
    \/ ToolRaises
    \/ Interrupt

Spec == Init /\ [][Next]_vars

----------------------------------------------------------------------------
\* Reading the trace of the current iteration

Events(type) == SelectSeq(trace, LAMBDA e : e.type = type)

Count(type) == Len(Events(type))

LastEvent == trace[Len(trace)]

\* the iteration ran process_query (its first operation is the list-tools)
QueryIteration == trace # <<>> /\ trace[1].type = "list_tools"

\* the iteration's process_query has returned to chat_loop
QueryFinished == pc = "prompt" /\ QueryIteration

ErrorPrinted == trace # <<>> /\ LastEvent.type = "error"

InnerPrefix == "Errore durante la chiamata a Ollama: "

----------------------------------------------------------------------------
\* C1 (as stated): when process_query has finished a response with a
\* tool_calls list, every listed tool was invoked exactly once, in list
\* order, whatever the position of a malformed or failing call.
C1_EveryListedCallInvoked ==
    (QueryFinished /\ received.status = StatusOK /\ received.hasToolCalls)
        => [i \in 1..Count("call_tool") |-> Events("call_tool")[i].idx]
             = [i \in 1..Len(calls) |-> i]

\* C1 (amended): the invoked calls are a prefix of the tool_calls list, in
\* list order and each once, with the name and the decoded arguments of the
\* listed call; the prefix is cut short only by an exception, which is
\* printed while the loop keeps running; without an error it is the whole list.
C1_InvokedPrefixInOrder ==
    LET ct == Events("call_tool") IN
    /\ Len(ct) <= Len(calls)
    /\ \A i \in 1..Len(ct) :
         /\ ct[i].idx = i
         /\ ct[i].name = Or(IF calls[i].function.kind = "dict"
                            THEN Get(calls[i].function.name) ELSE None,
                            Get(calls[i].name))
         /\ ArgsRaw(calls[i]) = CityRomeText => ct[i].val = CityRome
         /\ ArgsRaw(calls[i]) = ListText => ct[i].val = <<"list", "1">>
         /\ ~IsStr(ArgsRaw(calls[i])) => ct[i].val = ArgsRaw(calls[i])
    /\ QueryFinished =>
         /\ loop = "Running"
         /\ Len(ct) < Len(calls) => ErrorPrinted /\ LastEvent.val[1] = InnerPrefix
         /\ ~ErrorPrinted => (Len(ct) = Len(calls) /\ Count("result") = Len(calls))

\* a batch of two whose second call has a malformed argument string: the
\* first tool was invoked and reported, the error printed
C1_Witness ==
    /\ QueryFinished
    /\ Len(calls) = 2
    /\ ArgsRaw(calls[1]) = CityRomeText
    /\ ArgsRaw(calls[2]) = Malformed
    /\ Count("call_tool") = 1
    /\ Count("result") = 1
    /\ ErrorPrinted

----------------------------------------------------------------------------
\* C2: chat_loop is left only by the quit sentinel or by an interruption,
\* never by a processing error; after a printed error the loop is Running
\* and back at the prompt.
C2_LoopLeftOnlyByQuitOrInterrupt ==
    /\ leftBy \in {"none", "quit", "KeyboardInterrupt"}
    /\ loop = "Terminated" <=> leftBy # "none"
    /\ (loop = "Terminated" /\ exc # NoExc) => exc.type = "KeyboardInterrupt"
    /\ ErrorPrinted => (pc = "prompt" /\ loop = "Running") \/ leftBy = "KeyboardInterrupt"

\* the tool listing failed, the error was printed by chat_loop's handler and
\* the loop is back at the prompt
C2_Witness ==
    /\ pc = "prompt"
    /\ loop = "Running"
    /\ trace = <<Event("list_tools", 0, None, None),
                 Event("error", 0, None, <<"\nErrore: ", "Connection closed">>)>>

----------------------------------------------------------------------------
\* C3: once the client exists, leaving main releases the subprocess and the
\* session exactly once (cleanup runs once, nothing released before it,
\* nothing left open after it, nothing released twice), and no list-tools
\* or call-tool is issued on a released session.
C3_ReleasedExactlyOnce ==
    /\ cleanups <= 1
    /\ releases.subprocess <= 1 /\ releases.session <= 1
    /\ ~lateOp
    /\ pc \notin {"done"} =>
         /\ cleanups = 0
         /\ subprocess # "released" /\ session # "released"
    /\ pc = "done" =>
         /\ cleanups = 1
         /\ subprocess \in {"none", "released"}
         /\ session \in {"none", "released"}
         /\ releases.subprocess = (IF subprocess = "released" THEN 1 ELSE 0)
         /\ releases.session = (IF session = "released" THEN 1 ELSE 0)

\* main left by an interruption during a tool invocation, everything released
C3_Witness ==
    /\ pc = "done"
    /\ exc.type = "KeyboardInterrupt"
    /\ Count("call_tool") = 1
    /\ subprocess = "released" /\ session = "released"
    /\ releases = [subprocess |-> 1, session |-> 1]

----------------------------------------------------------------------------
\* the lines of Lines that are the quit sentinel once trimmed and lower-cased
QuitLines ==
    { <<"q", "u", "i", "t">>,
      <<"Q", "U", "I", "T", " ", " ">>,
      <<" ", "\t", "Q", "u", "i", "T", "\n">> }

\* C4: a quit line terminates the loop in the iteration that read it, with
\* no list-tools, model request, tool invocation or output after it; every
\* other line keeps the loop Running and starts the query pipeline.
C4_QuitStopsWithoutActivity ==
    /\ leftBy = "quit" =>
         /\ line \in QuitLines
         /\ loop = "Terminated"
         /\ pc \in {"finally", "done"}
         /\ trace = <<>> /\ posted = <<>> /\ received = NoResponse /\ returned = 0
    /\ pc \in {"list_tools", "post", "call_tool"} =>
         /\ line \notin QuitLines
         /\ loop = "Running"
         /\ QueryIteration
    /\ (loop = "Running" /\ QueryIteration) => line \notin QuitLines

\* scenario D: "QUIT" with trailing spaces ended the loop and main
C4_Witness ==
    /\ pc = "done"
    /\ leftBy = "quit"
    /\ line = <<"Q", "U", "I", "T", " ", " ">>
    /\ cleanups = 1

----------------------------------------------------------------------------
\* the script path does not end in ".py"
NotDotPy(path) ==
    \/ Len(path) < 3
    \/ path[Len(path) - 2] # "."
    \/ path[Len(path) - 1] # "p"
    \/ path[Len(path)] # "y"

\* C5: with a script path not ending in ".py", connect_to_server raises the
\* invalid-script error before anything is spawned or exchanged; the chat
\* loop is never entered and main ends with that error after its cleanup.
C5_InvalidScriptAborts ==
    (Len(argv) >= 1 /\ NotDotPy(argv[1]) /\ pc # "main") =>
        /\ pc \in {"finally", "done"}
        /\ exc.type = "ValueError"
        /\ subprocess = "none" /\ session = "none"
        /\ releases = [subprocess |-> 0, session |-> 0]
        /\ loop = "none"
        /\ ~lateOp
        /\ trace = <<>> /\ posted = <<>> /\ received = NoResponse
        /\ cleanups = (IF pc = "done" THEN 1 ELSE 0)

C5_Witness ==
    /\ pc = "done"
    /\ argv = << <<"s", ".", "P", "Y">> >>
    /\ exc.type = "ValueError"
    /\ cleanups = 1

----------------------------------------------------------------------------
\* C6: a response whose status is not 200 makes call_ollama raise an error
\* carrying that status and body; the message is printed, no tool is
\* invoked in that iteration and the loop prompts again.
C6_Non200PrintedNoTool ==
    (QueryIteration /\ received # NoResponse /\ received.status # 200) =>
        /\ Count("call_tool") = 0 /\ Count("model") = 0
        /\ trace = <<Event("list_tools", 0, None, None),
                     Event("post", 0, None, None),
                     Event("error", 0, None,
                           <<InnerPrefix, "Errore Ollama: ">>
                             \o (IF received.status = 500 THEN <<"500">>
                                 ELSE IF received.status = 404 THEN <<"404">>
                                 ELSE <<"201">>)
                             \o <<" - ">> \o received.body)>>
        /\ (pc = "prompt" /\ loop = "Running") \/ leftBy = "KeyboardInterrupt"

\* scenario C: HTTP 500 with body "internal error"
C6_Witness ==
    /\ pc = "prompt"
    /\ received.status = 500
    /\ received.body = <<"internal error">>
    /\ LastEvent.val = <<InnerPrefix, "Errore Ollama: ", "500", " - ", "internal error">>

----------------------------------------------------------------------------
----------------------------------------------------------------------------
\* C8 (as stated): every call-tool request carries a mapping as arguments.
C8_ArgumentsAlwaysMapping ==
    \A i \in 1..Len(trace) :
        trace[i].type = "call_tool" => trace[i].val[1] = "dict"

----------------------------------------------------------------------------
\* C9 (as stated): each call's notice, invocation and result come in that
\* order, and every invocation that returned has its result line printed.
C9_EveryReturnedResultPrinted ==
    /\ \A i \in 1..Len(trace) :
         trace[i].type = "call_tool" =>
            /\ i > 1 /\ trace[i - 1].type = "notice"
            /\ trace[i - 1].idx = trace[i].idx
            /\ trace[i - 1].val = trace[i].val
    /\ \A i \in 1..Len(trace) :
         trace[i].type = "result" =>
            /\ i > 1 /\ trace[i - 1].type = "call_tool"
            /\ trace[i - 1].idx = trace[i].idx
    /\ pc \in {"prompt", "call_tool"} => Count("result") = returned

----------------------------------------------------------------------------
\* C10 (as stated): every non-quit query fetches the tool list once, then
\* sends exactly one model request, then makes its tool invocations.
C10_ExactlyOneRequestPerQuery ==
    QueryFinished =>
        /\ Count("list_tools") = 1
        /\ Count("post") = 1 /\ Len(posted) = 1
        /\ \A i \in 1..Len(trace) : trace[i].type = "call_tool" => i > 2

\* C10 (amended): every non-quit query fetches the tool list exactly once;
\* when the fetch returns, exactly one request follows, carrying the query
\* and the descriptors of the tools just fetched, and is never repeated;
\* when the fetch raises, no request and no tool invocation is made; tool
\* invocations only follow a returned status-200 request.
C10_OneFetchThenAtMostOneRequest ==
    QueryIteration =>
        /\ Count("list_tools") = 1
        /\ Count("post") = Len(posted)
        /\ Len(posted) <= 1
        /\ pc \in {"post", "call_tool"} => Len(posted) = 1
        /\ Len(posted) = 1 =>
             /\ trace[2].type = "post"
             /\ posted[1].query = query
             /\ Len(posted[1].tools) = Len(fetched)
             /\ \A i \in 1..Len(fetched) :
                  posted[1].tools[i].function.name = fetched[i].name
        /\ (pc = "prompt" /\ Len(posted) = 0) =>
             trace = <<Event("list_tools", 0, None, None),
                       Event("error", 0, None, <<"\nErrore: ", "Connection closed">>)>>
        /\ \A i \in 1..Len(trace) :
             trace[i].type = "call_tool" =>
                (i > 2 /\ Len(posted) = 1 /\ received.status = 200)

\* a query whose request returned two tool calls, both invoked
C10_Witness ==
    /\ QueryFinished
    /\ Len(posted) = 1
    /\ Len(fetched) = 2
    /\ Count("call_tool") = 2
    /\ Count("result") = 2

====
